---------------------------- MODULE Spec2Model ----------------------------
(***************************************************************************)
(* State-machine model of src/main_starter.py: the analysis run           *)
(* (EnhancedBankingSequentialOrchestration.run_enhanced_analysis), the    *)
(* customer-profile resolution, the sequential stage pipeline with its    *)
(* completion callback and 180 s wait, the risk scoring and the report    *)
(* synthesis.                                                              *)
(*                                                                         *)
(* Numbers: money is in whole dollars; a risk score is held in            *)
(* thousandths (500 is 0.5).  Every adjustment of the scoring function is  *)
(* a multiple of 0.01 and the function ends in round(x, 3), so the float   *)
(* result is the double nearest to k/1000 and the integer k is exact.      *)
(***************************************************************************)
EXTENDS Integers, Sequences, FiniteSets, TLC

(***************************************************************************)
(* Bounds of the model                                                     *)
(***************************************************************************)
\* calls of run_enhanced_analysis started in one behaviour
MaxCalls == 2

\* seconds of waiting that one Tick of the model stands for
TickSeconds == 90

(***************************************************************************)
(* Program constants                                                       *)
(***************************************************************************)
\* asyncio.wait_for(orchestration_result.get(), timeout=180.0)
TimeoutSeconds == 180

TimeoutTicks == TimeoutSeconds \div TickSeconds

None == "None"

\* the ids _load_customer_profiles knows and fetches for
LoadIds == {"12345", "67890", "11111"}

\* ids a caller passes to run_enhanced_analysis ("99999" is not a known id)
CustomerIds == {"12345", "11111", "99999"}

Tx(a, d, t) == [amount |-> a, description |-> d, ts |-> t]

\* CustomerProfile(customer_id=cid) with the class's field defaults
ZeroProfile(cid) ==
    [customer_id |-> cid, income |-> 0, credit_score |-> 0,
     account_type |-> "standard", customer_since |-> "", risk_tier |-> "medium",
     recent_transactions |-> <<>>, banking_products |-> <<>>,
     last_review_date |-> ""]

\* default_profiles of _load_customer_profiles
default_profiles ==
    [cid \in LoadIds |->
       CASE cid = "12345" ->
              [customer_id |-> "12345", income |-> 75000, credit_score |-> 780,
               account_type |-> "premium_plus", customer_since |-> "2019-05-15",
               risk_tier |-> "low",
               recent_transactions |->
                   << Tx(4500, "Salary Deposit", "2024-03-20"),
                      Tx(1500, "Mortgage Payment", "2024-03-15"),
                      Tx(300, "Investment Contribution", "2024-03-10"),
                      Tx(200, "Utility Bills", "2024-03-05") >>,
               banking_products |->
                   <<"checking", "savings", "mortgage", "investment", "credit_card">>,
               last_review_date |-> "2024-01-10"]
         [] cid = "67890" ->
              [customer_id |-> "67890", income |-> 45000, credit_score |-> 680,
               account_type |-> "standard", customer_since |-> "2021-08-20",
               risk_tier |-> "medium",
               recent_transactions |->
                   << Tx(3200, "Salary Deposit", "2024-03-20"),
                      Tx(1200, "Rent Payment", "2024-03-14"),
                      Tx(400, "Car Payment", "2024-03-08"),
                      Tx(150, "Student Loan", "2024-03-02") >>,
               banking_products |-> <<"checking", "savings", "credit_card">>,
               last_review_date |-> "2024-02-15"]
         [] OTHER ->
              [customer_id |-> "11111", income |-> 28000, credit_score |-> 620,
               account_type |-> "basic", customer_since |-> "2023-01-10",
               risk_tier |-> "high",
               recent_transactions |->
                   << Tx(2300, "Salary Deposit", "2024-03-20"),
                      Tx(800, "Rent Payment", "2024-03-12"),
                      Tx(300, "Credit Card Payment", "2024-03-07"),
                      Tx(150, "Overdraft Fee", "2024-03-01") >>,
               banking_products |-> <<"checking">>,
               last_review_date |-> "2024-03-01"]]

(***************************************************************************)
(* DataConnector.  A query either raises (connection or SQL error) or      *)
(* gives its rows.                                                         *)
(***************************************************************************)
IncomeQueries ==
    { [error |-> TRUE,  rows |-> <<>>],
      [error |-> FALSE, rows |-> <<>>],
      [error |-> FALSE, rows |-> <<52000>>] }

TxQueries ==
    { [error |-> TRUE,  rows |-> <<>>],
      [error |-> FALSE, rows |-> <<>>],
      [error |-> FALSE, rows |-> << Tx(12000, "Wire Transfer", "2024-04-02") >>] }

FetchOutcomes == [income : IncomeQueries, tx : TxQueries]

\* fetch_income: an Optional[float], here a sequence of at most one value;
\* the handler of lines 83-85 turns an error into None
fetch_income(q) == IF q.error THEN <<>> ELSE q.rows

\* fetch_transactions: the handler of lines 104-106 turns an error into []
fetch_transactions(q) == IF q.error THEN <<>> ELSE q.rows

\* a loop body that assigns the income without the `is not None` test
LoadOneNoNoneTest(default, fo) ==
    LET income       == fetch_income(fo.income)
        transactions == fetch_transactions(fo.tx)
    IN  [default EXCEPT
           !.income = IF income # <<>> THEN income[1] ELSE 0,
           !.recent_transactions =
               IF transactions # <<>> THEN transactions ELSE @]

\* lines 281-288: the body of the loop for one id
LoadOne(default, fo) ==
    LET income       == fetch_income(fo.income)
        transactions == fetch_transactions(fo.tx)
    IN  IF income # <<>>
          THEN [default EXCEPT
                  !.income = income[1],
                  !.recent_transactions =
                      IF transactions # <<>> THEN transactions ELSE @]
          ELSE default

\* _load_customer_profiles: `sql` is data_connector.connection_string being
\* set, `fetched` gives the outcome of the two fetches for each id
_load_customer_profiles(sql, fetched) ==
    IF sql
      THEN [cid \in LoadIds |-> LoadOne(default_profiles[cid], fetched[cid])]
      ELSE default_profiles

\* an empty dict
EmptyMap == [x \in {} |-> None]

\* self.customer_profiles.get(customer_id, CustomerProfile(customer_id=customer_id))
GetProfile(cache, cid) ==
    IF cid \in DOMAIN cache THEN cache[cid] ELSE ZeroProfile(cid)

(***************************************************************************)
(* Dates: datetime.strptime(s, "%Y-%m-%d") and (now - since).days          *)
(***************************************************************************)
\* strptime on the strings the model uses; any other string raises ValueError
ParseDate(s) ==
    CASE s = "2019-05-15" -> [ok |-> TRUE, ymd |-> <<2019, 5, 15>>]
      [] s = "2021-08-20" -> [ok |-> TRUE, ymd |-> <<2021, 8, 20>>]
      [] s = "2023-01-10" -> [ok |-> TRUE, ymd |-> <<2023, 1, 10>>]
      [] s = "2024-09-01" -> [ok |-> TRUE, ymd |-> <<2024, 9, 1>>]
      [] OTHER -> [ok |-> FALSE, ymd |-> <<1, 1, 1>>]

IsLeap(y) == (y % 4 = 0) /\ ((y % 100 # 0) \/ (y % 400 = 0))

DaysBeforeMonth(y, m) ==
    LET cum == <<0, 31, 59, 90, 120, 151, 181, 212, 243, 273, 304, 334>>
    IN  cum[m] + (IF m > 2 /\ IsLeap(y) THEN 1 ELSE 0)

\* date.toordinal()
Ordinal(ymd) ==
    LET y == ymd[1] - 1
    IN  365 * y + (y \div 4) - (y \div 100) + (y \div 400)
          + DaysBeforeMonth(ymd[1], ymd[2]) + ymd[3]

\* (datetime.now() - since).days, `since` being a midnight
DaysBetween(now, since) == Ordinal(now) - Ordinal(since)

(***************************************************************************)
(* _calculate_enhanced_risk_score, in thousandths                          *)
(***************************************************************************)
\* an income factor whose third band adds 0.05 where the code subtracts it
IncomeAdjustmentSignSlip(income) ==
    IF income >= 100000 THEN -150
    ELSE IF income >= 75000 THEN -100
    ELSE IF income >= 50000 THEN 50
    ELSE IF income < 30000 THEN 100
    ELSE 0

IncomeAdjustment(income) ==
    IF income >= 100000 THEN -150
    ELSE IF income >= 75000 THEN -100
    ELSE IF income >= 50000 THEN -50
    ELSE IF income < 30000 THEN 100
    ELSE 0

\* a credit factor whose second band adds 0.08 where the code subtracts it
CreditAdjustmentSignSlip(credit_score) ==
    IF credit_score >= 750 THEN -150
    ELSE IF credit_score >= 700 THEN 80
    ELSE IF credit_score >= 650 THEN 50
    ELSE IF credit_score > 0 THEN 150
    ELSE 0

CreditAdjustment(credit_score) ==
    IF credit_score >= 750 THEN -150
    ELSE IF credit_score >= 700 THEN -80
    ELSE IF credit_score >= 650 THEN 50
    ELSE IF credit_score > 0 THEN 150
    ELSE 0

\* years = days / 365.25, compared as days * 100 against years * 36525
TenureAdjustment(customer_since, now) ==
    IF customer_since = "" THEN 0
    ELSE LET since == ParseDate(customer_since)
             days  == DaysBetween(now, since.ymd)
         IN  IF ~since.ok THEN 0
             ELSE IF days * 100 >= 5 * 36525 THEN -100
             ELSE IF days * 100 >= 3 * 36525 THEN -50
             ELSE IF days * 100 < 36525 THEN 80
             ELSE 0

\* a product factor whose middle band starts at three products
ProductAdjustmentFromThree(num_products) ==
    IF num_products >= 4 THEN -80
    ELSE IF num_products >= 3 THEN -30
    ELSE IF num_products <= 1 THEN 50
    ELSE 0

ProductAdjustment(num_products) ==
    IF num_products >= 4 THEN -80
    ELSE IF num_products >= 2 THEN -30
    ELSE IF num_products <= 1 THEN 50
    ELSE 0

RECURSIVE MaxAmountFrom(_, _)
MaxAmountFrom(txs, i) ==
    IF i = Len(txs) THEN txs[i].amount
    ELSE LET rest == MaxAmountFrom(txs, i + 1)
         IN  IF txs[i].amount >= rest THEN txs[i].amount ELSE rest

RECURSIVE MinAmountFrom(_, _)
MinAmountFrom(txs, i) ==
    IF i = Len(txs) THEN txs[i].amount
    ELSE LET rest == MinAmountFrom(txs, i + 1)
         IN  IF txs[i].amount <= rest THEN txs[i].amount ELSE rest

\* a transaction factor that adds 0.30 for a transaction above 10000
TransactionAdjustmentHeavy(transactions) ==
    IF transactions = <<>> THEN 0
    ELSE LET max_amount == MaxAmountFrom(transactions, 1)
         IN  IF max_amount > 10000 THEN 300
             ELSE IF max_amount > 5000 THEN 30
             ELSE 0

TransactionAdjustment(transactions) ==
    IF transactions = <<>> THEN 0
    ELSE LET max_amount == MaxAmountFrom(transactions, 1)
         IN  IF max_amount > 10000 THEN 100
             ELSE IF max_amount > 5000 THEN 30
             ELSE 0

\* max(0.0, min(1.0, round(base_score, 3)))
Clamp(x) == IF x < 0 THEN 0 ELSE IF x > 1000 THEN 1000 ELSE x

base_score == 500

\* a scoring function on the opposite scale (1.0 = low risk)
RiskScoreOppositeScale(p, now) ==
    1000 - Clamp(base_score
                 + IncomeAdjustment(p.income)
                 + CreditAdjustment(p.credit_score)
                 + TenureAdjustment(p.customer_since, now)
                 + ProductAdjustment(Len(p.banking_products))
                 + TransactionAdjustment(p.recent_transactions))

\* a scoring function that returns the score in percent
RiskScoreInPercent(p, now) ==
    100 * Clamp(base_score
                + IncomeAdjustment(p.income)
                + CreditAdjustment(p.credit_score)
                + TenureAdjustment(p.customer_since, now)
                + ProductAdjustment(Len(p.banking_products))
                + TransactionAdjustment(p.recent_transactions))

\* round(base_score, 3) of line 648: base_score after the five factors
RoundedSum(p, now) ==
    base_score
      + IncomeAdjustment(p.income)
      + CreditAdjustment(p.credit_score)
      + TenureAdjustment(p.customer_since, now)
      + ProductAdjustment(Len(p.banking_products))
      + TransactionAdjustment(p.recent_transactions)

_calculate_enhanced_risk_score(p, now) == Clamp(RoundedSum(p, now))

\* a tier function whose last boundary belongs to the tier below
RiskTierUpperInclusive(risk_score) ==
    IF risk_score < 250 THEN "low"
    ELSE IF risk_score < 500 THEN "medium-low"
    ELSE IF risk_score < 650 THEN "medium"
    ELSE IF risk_score <= 800 THEN "high"
    ELSE "critical"

\* _determine_risk_tier
_determine_risk_tier(risk_score) ==
    IF risk_score < 250 THEN "low"
    ELSE IF risk_score < 500 THEN "medium-low"
    ELSE IF risk_score < 650 THEN "medium"
    ELSE IF risk_score < 800 THEN "high"
    ELSE "critical"

(***************************************************************************)
(* Report synthesis.  A finding or recommendation is named by its          *)
(* template; the numbers formatted into the text are left out.             *)
(***************************************************************************)
Has(seq, x) == \E i \in 1..Len(seq) : seq[i] = x

Opt(cond, x) == IF cond THEN <<x>> ELSE <<>>

\* findings whose income rule has no else branch
FindingsNoIncomeElse(p, results, contributions) ==
    <<"analysis_completed">>
    \o ( IF p.income >= 75000 THEN <<"income_tier_a">>
         ELSE IF p.income >= 50000 THEN <<"income_tier_b">>
         ELSE IF p.income >= 30000 THEN <<"income_tier_c">>
         ELSE <<>> )
    \o ( IF p.credit_score >= 750 THEN <<"credit_excellent">>
         ELSE IF p.credit_score >= 700 THEN <<"credit_good">>
         ELSE IF p.credit_score >= 650 THEN <<"credit_fair">>
         ELSE IF p.credit_score > 0 THEN <<"credit_case_by_case">>
         ELSE <<>> )
    \o ( IF Len(p.banking_products) >= 4 THEN <<"high_product_engagement">>
         ELSE IF Len(p.banking_products) <= 1 THEN <<"low_product_engagement">>
         ELSE <<>> )
    \o Opt(p.recent_transactions # <<>>, "transaction_activity")
    \o Opt(results # <<>>, "policy_areas")

\* _generate_enhanced_findings
_generate_enhanced_findings(p, results, contributions) ==
    <<"analysis_completed">>
    \o << IF p.income >= 75000 THEN "income_tier_a"
          ELSE IF p.income >= 50000 THEN "income_tier_b"
          ELSE IF p.income >= 30000 THEN "income_tier_c"
          ELSE "income_limits_eligibility" >>
    \o ( IF p.credit_score >= 750 THEN <<"credit_excellent">>
         ELSE IF p.credit_score >= 700 THEN <<"credit_good">>
         ELSE IF p.credit_score >= 650 THEN <<"credit_fair">>
         ELSE IF p.credit_score > 0 THEN <<"credit_case_by_case">>
         ELSE <<>> )
    \o ( IF Len(p.banking_products) >= 4 THEN <<"high_product_engagement">>
         ELSE IF Len(p.banking_products) <= 1 THEN <<"low_product_engagement">>
         ELSE <<>> )
    \o Opt(p.recent_transactions # <<>>, "transaction_activity")
    \o Opt(results # <<>>, "policy_areas")

\* the recommendations before the closing fallback rule (lines 710-742)
RuleRecommendations(p, risk_score) ==
    LET risk_tier == _determine_risk_tier(risk_score)
        products  == p.banking_products
    IN  ( IF risk_tier \in {"high", "critical"}
            THEN <<"enhanced_monitoring", "additional_documentation">>
          ELSE IF risk_tier = "medium" THEN <<"semi_annual_reviews">>
          ELSE <<"annual_reviews">> )
        \o Opt(~Has(products, "investment") /\ p.income >= 50000, "investment_services")
        \o Opt(~Has(products, "savings"), "savings_account")
        \o Opt(~Has(products, "credit_card") /\ p.credit_score >= 650,
               "rewards_credit_card")
        \o Opt(~Has(products, "mortgage") /\ p.income >= 75000 /\ p.credit_score >= 700,
               "mortgage_prequalification")
        \o Opt(p.account_type = "basic" /\ p.income >= 50000, "upgrade_premium")
        \o Opt(Len(products) <= 1, "cross_sell_program")
        \o Opt(p.credit_score < 700 /\ p.credit_score > 0, "credit_building_program")

\* recommendations without the closing fallback rule
RecommendationsNoFallback(p, risk_score) == RuleRecommendations(p, risk_score)

\* _generate_enhanced_recommendations
_generate_enhanced_recommendations(p, risk_score) ==
    LET recommendations == RuleRecommendations(p, risk_score)
    IN  recommendations
          \o Opt(Len(recommendations) < 2, "periodic_financial_health_review")

\* policy_refs: the distinct non-empty filenames of the search results
PolicyRefs(results) ==
    {results[i].filename : i \in {j \in 1..Len(results) : results[j].filename # ""}}

(***************************************************************************)
(* The system object and the calls of run_enhanced_analysis                *)
(***************************************************************************)
\* the names run_component_tests expects of the agents, in order
expected_names ==
    << "Enhanced_Data_Gatherer", "Enhanced_Fraud_Analyst", "Enhanced_Loan_Analyst",
       "Enhanced_Support_Specialist", "Enhanced_Risk_Analyst",
       "Enhanced_Synthesis_Coordinator" >>

\* an agent list with the risk analyst placed after the synthesis coordinator
agents_synthesis_before_risk ==
    << "Enhanced_Data_Gatherer", "Enhanced_Fraud_Analyst", "Enhanced_Loan_Analyst",
       "Enhanced_Support_Specialist", "Enhanced_Synthesis_Coordinator",
       "Enhanced_Risk_Analyst" >>

\* create_enhanced_agents: the members of the orchestration, in order
agents ==
    << "Enhanced_Data_Gatherer", "Enhanced_Fraud_Analyst", "Enhanced_Loan_Analyst",
       "Enhanced_Support_Specialist", "Enhanced_Risk_Analyst",
       "Enhanced_Synthesis_Coordinator" >>

\* texts the generation capability may return
GeneratedTexts == {"analysis"}

\* what hybrid_search may return: ranked excerpts, none when the service fails
Excerpt(f, c) == [filename |-> f, collection |-> c, document |-> <<"p">>]

SearchResultSets ==
    { <<>>,
      << Excerpt("fraud_policy.md", "fraud_detection"),
         Excerpt("loan_policy.md", "loan_policies") >> }

\* the search service during one search: it fails or not, and the ranked
\* excerpts it had found
SearchOutcomes == [error : BOOLEAN, rows : SearchResultSets]

\* a search that hands on what was found before the service failed
hybrid_search_partial(q) == q.rows

\* ChromaDBManager.hybrid_search: an empty list when the service fails
hybrid_search(q) == IF q.error THEN <<>> ELSE q.rows

\* datetime.now() as a date, at the moment the score is computed
NowDates == { <<2024, 6, 1>> }

\* outcomes of the queries of one load during a run (the same for all ids)
RunFetchOutcomes ==
    { [income |-> [error |-> TRUE, rows |-> <<>>],
       tx     |-> [error |-> TRUE, rows |-> <<>>]],
      [income |-> [error |-> FALSE, rows |-> <<52000>>],
       tx     |-> [error |-> FALSE, rows |-> <<>>]] }

RunFetchScenarios == { [cid \in LoadIds |-> fo] : fo \in RunFetchOutcomes }

\* no query is made when there is no connection string
NoFetch ==
    [cid \in LoadIds |-> [income |-> [error |-> FALSE, rows |-> <<>>],
                          tx     |-> [error |-> FALSE, rows |-> <<>>]]]

\* the callers of the system: slots in which a call of run_enhanced_analysis runs
Slots == {1, 2}

\* exceptions: the class and str(e)
TimeoutError     == [type |-> "TimeoutError", msg |-> ""]
GenerationError  == [type |-> "ServiceResponseException", msg |-> "generation failed"]
RuntimeStartError == [type |-> "RuntimeError", msg |-> "runtime start failed"]
StorageError     == [type |-> "StorageError", msg |-> "document store unavailable"]
NoError          == [type |-> "", msg |-> ""]

NoReport == [report_id |-> 0, agent_contributions |-> EmptyMap]

Nothing  == [kind |-> "none", report |-> NoReport, error |-> NoError]
Returned(rep) == [kind |-> "report", report |-> rep, error |-> NoError]
Raised(e)     == [kind |-> "error", report |-> NoReport, error |-> e]

NoCalls == [update_interaction |-> 0, record_failure |-> 0, generate |-> 0,
            stop_when_idle |-> 0]

VARIABLES
    active,               \* the slots that make calls
    connection_string,    \* data_connector.connection_string is set
    customer_profiles,    \* self.customer_profiles
    performance_metrics,  \* self.performance_metrics
    interactions,         \* the interaction log of self.shared_state
    docs_loaded,          \* the vector store holds the document chunks
    uuid_seq,             \* report ids handed out so far
    pc,                   \* where each call stands
    customer_id,          \* the call's argument
    customer_profile,     \* local customer_profile
    search_results,       \* local search_results
    search_error,         \* the search service failed during the call's search
    agent_contributions,  \* local agent_contributions
    stage,                \* index of the agent that is running, 0 when none is
    responded,            \* members of the orchestration that have responded
    output,               \* the latest response, the orchestration's result so far
    waited,               \* ticks spent in wait_for
    pending,              \* the return value or exception in flight
    result,               \* what the caller received from its last call
    calls,                \* calls made to the collaborators by the current call
    resolved,             \* outcome of one profile resolution (SpecResolve)
    scoring,              \* one profile and the scoring calls made on it (SpecScore)
    assembly,             \* inputs and result of one context assembly (SpecContext)
    history               \* calls the callers started, and calls that gave a report

vars == << active, connection_string, customer_profiles, performance_metrics,
           interactions, docs_loaded, uuid_seq, pc, customer_id, customer_profile,
           search_results, search_error, agent_contributions, stage, responded, output,
           waited, pending, result, calls, resolved, scoring, assembly,
           history >>

shared == << customer_profiles, performance_metrics, interactions, docs_loaded,
             uuid_seq >>

locals == << customer_id, customer_profile, search_results, search_error,
             agent_contributions,
             stage, responded, output, waited, pending, result, calls >>

\* the variables of the specifications of single functions
units == << resolved, scoring, assembly >>

NotResolved == [done |-> FALSE]

NotScored == [started |-> FALSE]

NotAssembled == [done |-> FALSE]

\* __init__: the system object, with no call made yet
InitCalls ==
    /\ connection_string \in BOOLEAN
    /\ history = [started |-> 0, returned |-> 0]
    /\ customer_profiles = EmptyMap
    /\ performance_metrics = [total_requests |-> 0, successful_analyses |-> 0]
    /\ interactions = <<>>
    /\ docs_loaded = FALSE
    /\ uuid_seq = 0
    /\ pc = [r \in Slots |-> "idle"]
    /\ customer_id = [r \in Slots |-> None]
    /\ customer_profile = [r \in Slots |-> ZeroProfile(None)]
    /\ search_results = [r \in Slots |-> <<>>]
    /\ search_error = [r \in Slots |-> FALSE]
    /\ agent_contributions = [r \in Slots |-> EmptyMap]
    /\ stage = [r \in Slots |-> 0]
    /\ responded = [r \in Slots |-> 0]
    /\ output = [r \in Slots |-> ""]
    /\ waited = [r \in Slots |-> 0]
    /\ pending = [r \in Slots |-> Nothing]
    /\ result = [r \in Slots |-> Nothing]
    /\ calls = [r \in Slots |-> NoCalls]

InitSystem ==
    /\ InitCalls
    /\ resolved = NotResolved
    /\ scoring = NotScored
    /\ assembly = NotAssembled

\* one caller, making its calls one after another
Init == InitSystem /\ active = {1}

\* SharedState.update_interaction
update_interaction(log, cid, rep) ==
    Append(log, [customer_id |-> cid, kind |-> "interaction",
                 report_id |-> rep.report_id, risk_score |-> rep.risk_score,
                 reason |-> ""])

\* SharedState.record_failure
record_failure(log, cid, reason) ==
    Append(log, [customer_id |-> cid, kind |-> "failure",
                 report_id |-> 0, risk_score |-> 0, reason |-> reason])

\* str(e) of line 586
Str(e) == e.msg

\* a handler that ends without re-raising
SwallowException(e) == NoError

\* a handler that raises a new generic exception in place of the caught one
ReraiseGeneric(e) == [type |-> "Exception", msg |-> e.msg]

\* `raise` of line 587
Reraise(e) == e

\* a callback that keys the dict by the message role, the same for all agents
enhanced_agent_callback_by_role(contributions, name, content) ==
    [n \in DOMAIN contributions \cup {"assistant"} |-> content]

\* enhanced_agent_callback: agent_contributions[message.name] = message.content
enhanced_agent_callback(contributions, name, content) ==
    [n \in DOMAIN contributions \cup {name} |->
        IF n = name THEN content ELSE contributions[n]]

\* line 456: self.performance_metrics["total_requests"] += 1
CountRequest(metrics) == [metrics EXCEPT !.total_requests = @ + 1]

\* an increment that goes to the other counter
CountSuccessAsRequest(metrics) == [metrics EXCEPT !.total_requests = @ + 1]

\* line 574: self.performance_metrics["successful_analyses"] += 1
CountSuccess(metrics) == [metrics EXCEPT !.successful_analyses = @ + 1]

\* lines 455-460: the call starts
Start(r) ==
    /\ r \in active
    /\ pc[r] \in {"idle", "done"}
    /\ performance_metrics.total_requests < MaxCalls
    /\ history' = [history EXCEPT !.started = @ + 1]
    /\ \E cid \in CustomerIds :
         customer_id' = [customer_id EXCEPT ![r] = cid]
    /\ performance_metrics' = CountRequest(performance_metrics)
    /\ IF customer_profiles # EmptyMap
         THEN /\ pc' = [pc EXCEPT ![r] = "load_docs"]
              /\ UNCHANGED customer_profiles
         ELSE IF connection_string
           THEN /\ pc' = [pc EXCEPT ![r] = "load_profiles"]
                /\ UNCHANGED customer_profiles
           ELSE /\ pc' = [pc EXCEPT ![r] = "load_docs"]
                /\ customer_profiles' = _load_customer_profiles(FALSE, NoFetch)
    /\ customer_profile' = [customer_profile EXCEPT ![r] = ZeroProfile(None)]
    /\ search_results' = [search_results EXCEPT ![r] = <<>>]
    /\ search_error' = [search_error EXCEPT ![r] = FALSE]
    /\ agent_contributions' = [agent_contributions EXCEPT ![r] = EmptyMap]
    /\ stage' = [stage EXCEPT ![r] = 0]
    /\ responded' = [responded EXCEPT ![r] = 0]
    /\ output' = [output EXCEPT ![r] = ""]
    /\ waited' = [waited EXCEPT ![r] = 0]
    /\ pending' = [pending EXCEPT ![r] = Nothing]
    /\ result' = [result EXCEPT ![r] = Nothing]
    /\ calls' = [calls EXCEPT ![r] = NoCalls]
    /\ UNCHANGED << active, connection_string, interactions, docs_loaded, uuid_seq,
                    units >>

\* line 460: the awaited _load_customer_profiles returns and is assigned
FinishLoadProfiles(r) ==
    /\ pc[r] = "load_profiles"
    /\ \E fetched \in RunFetchScenarios :
         customer_profiles' = _load_customer_profiles(connection_string, fetched)
    /\ pc' = [pc EXCEPT ![r] = "load_docs"]
    /\ UNCHANGED << active, connection_string, history, performance_metrics, interactions,
                    docs_loaded, uuid_seq, units >>
    /\ UNCHANGED locals

\* lines 463-469: load_enhanced_documents returns; the profile is looked up
LoadDocuments(r) ==
    /\ pc[r] = "load_docs"
    /\ docs_loaded' = TRUE
    /\ customer_profile' =
         [customer_profile EXCEPT ![r] = GetProfile(customer_profiles, customer_id[r])]
    /\ pc' = [pc EXCEPT ![r] = "search"]
    /\ UNCHANGED << active, connection_string, history, customer_profiles,
                    performance_metrics,
                    interactions, uuid_seq, units >>
    /\ UNCHANGED << customer_id, search_results, search_error, agent_contributions, stage,
                    responded, output, waited, pending, result, calls >>

\* line 463: load_enhanced_documents raises (no handler encloses it)
LoadDocumentsFails(r) ==
    /\ pc[r] = "load_docs"
    /\ pc' = [pc EXCEPT ![r] = "done"]
    /\ result' = [result EXCEPT ![r] = Raised(StorageError)]
    /\ UNCHANGED << active, connection_string, history, units >>
    /\ UNCHANGED shared
    /\ UNCHANGED << customer_id, customer_profile, search_results, search_error,
                    agent_contributions, stage, responded, output, waited,
                    pending, calls >>

\* a handler that re-raises without recording the failure
HandleExceptionNoRecord(r, e) ==
    /\ UNCHANGED << interactions, calls >>
    /\ pending' = [pending EXCEPT ![r] = Raised(Reraise(e))]
    /\ pc' = [pc EXCEPT ![r] = "stopping"]

\* a handler that records the failure and returns what was collected
HandleExceptionPartialReturn(r, e) ==
    /\ interactions' = record_failure(interactions, customer_id[r], Str(e))
    /\ calls' = [calls EXCEPT ![r].record_failure = @ + 1]
    /\ pending' = [pending EXCEPT
                     ![r] = Returned([report_id |-> 0,
                                      agent_contributions |-> agent_contributions[r]])]
    /\ pc' = [pc EXCEPT ![r] = "stopping"]

\* a handler that also stops the runtime, ahead of the finally clause
HandleExceptionStopsRuntime(r, e) ==
    /\ interactions' = record_failure(interactions, customer_id[r], Str(e))
    /\ calls' = [calls EXCEPT ![r].record_failure = @ + 1,
                              ![r].stop_when_idle = @ + 1]
    /\ pending' = [pending EXCEPT ![r] = Raised(Reraise(e))]
    /\ pc' = [pc EXCEPT ![r] = "stopping"]

\* lines 584-589: the handler records the failure and re-raises; the finally
\* clause then awaits runtime.stop_when_idle()
HandleException(r, e) ==
    /\ interactions' = record_failure(interactions, customer_id[r], Str(e))
    /\ calls' = [calls EXCEPT ![r].record_failure = @ + 1]
    /\ pending' = [pending EXCEPT ![r] = Raised(Reraise(e))]
    /\ pc' = [pc EXCEPT ![r] = "stopping"]

\* lines 472-505, 526: the search returns, the context, the agents, the empty
\* contribution dict and the runtime are made, the runtime starts, and
\* sequential_orchestration.invoke is awaited
Search(r) ==
    /\ pc[r] = "search"
    /\ \E q \in SearchOutcomes :
         /\ search_results' = [search_results EXCEPT ![r] = hybrid_search(q)]
         /\ search_error' = [search_error EXCEPT ![r] = q.error]
    /\ agent_contributions' = [agent_contributions EXCEPT ![r] = EmptyMap]
    /\ pc' = [pc EXCEPT ![r] = "invoke"]
    /\ UNCHANGED << active, connection_string, history, units >>
    /\ UNCHANGED shared
    /\ UNCHANGED << customer_id, customer_profile, stage, responded, output, waited,
                    pending, result, calls >>

\* line 505: runtime.start() raises inside the try
RuntimeStartFails(r) ==
    /\ pc[r] = "search"
    /\ \E q \in SearchOutcomes :
         /\ search_results' = [search_results EXCEPT ![r] = hybrid_search(q)]
         /\ search_error' = [search_error EXCEPT ![r] = q.error]
    /\ agent_contributions' = [agent_contributions EXCEPT ![r] = EmptyMap]
    /\ HandleException(r, RuntimeStartError)
    /\ UNCHANGED << active, connection_string, history, units >>
    /\ UNCHANGED << customer_profiles, performance_metrics, docs_loaded, uuid_seq >>
    /\ UNCHANGED << customer_id, customer_profile, stage, responded, output,
                    waited, result >>

\* lines 526-532: invoke returns the orchestration result; wait_for starts
Invoke(r) ==
    /\ pc[r] = "invoke"
    /\ pc' = [pc EXCEPT ![r] = "waiting"]
    /\ waited' = [waited EXCEPT ![r] = 0]
    /\ UNCHANGED << active, connection_string, history, units >>
    /\ UNCHANGED shared
    /\ UNCHANGED << customer_id, customer_profile, search_results, search_error,
                    agent_contributions, stage, responded, output, pending,
                    result, calls >>

\* the member that runs after `done` members have responded
NextAgent(done) == done + 1

\* the orchestration hands the task to the next member: generate is called
StageStart(r) ==
    /\ pc[r] = "waiting"
    /\ waited[r] < TimeoutTicks
    /\ stage[r] = 0
    /\ responded[r] < Len(agents)
    /\ stage' = [stage EXCEPT ![r] = NextAgent(responded[r])]
    /\ calls' = [calls EXCEPT ![r].generate = @ + 1]
    /\ UNCHANGED << active, connection_string, history, units >>
    /\ UNCHANGED shared
    /\ UNCHANGED << pc, customer_id, customer_profile, search_results, search_error,
                    agent_contributions, responded, output, waited, pending, result >>

\* the member responds: the callback of lines 486-493 runs
StageComplete(r) ==
    /\ pc[r] = "waiting"
    /\ waited[r] < TimeoutTicks
    /\ stage[r] > 0
    /\ \E content \in GeneratedTexts :
         /\ agent_contributions' =
              [agent_contributions EXCEPT
                  ![r] = enhanced_agent_callback(@, agents[stage[r]], content)]
         /\ output' = [output EXCEPT ![r] = content]
    /\ stage' = [stage EXCEPT ![r] = 0]
    /\ responded' = [responded EXCEPT ![r] = @ + 1]
    /\ UNCHANGED << active, connection_string, history, units >>
    /\ UNCHANGED shared
    /\ UNCHANGED << pc, customer_id, customer_profile, search_results,
                    search_error, waited,
                    pending, result, calls >>

\* the generation capability raises while a member runs
StageFails(r) ==
    /\ pc[r] = "waiting"
    /\ waited[r] < TimeoutTicks
    /\ stage[r] > 0
    /\ HandleException(r, GenerationError)
    /\ UNCHANGED << active, connection_string, history, units >>
    /\ UNCHANGED << customer_profiles, performance_metrics, docs_loaded, uuid_seq >>
    /\ UNCHANGED << customer_id, customer_profile, search_results, search_error,
                    agent_contributions, stage, responded, output, waited, result >>

\* time passes while wait_for waits for the result
Tick(r) ==
    /\ pc[r] = "waiting"
    /\ waited[r] < TimeoutTicks
    /\ ~(stage[r] = 0 /\ responded[r] = Len(agents))
    /\ waited' = [waited EXCEPT ![r] = @ + 1]
    /\ UNCHANGED << active, connection_string, history, units >>
    /\ UNCHANGED shared
    /\ UNCHANGED << pc, customer_id, customer_profile, search_results, search_error,
                    agent_contributions, stage, responded, output, pending,
                    result, calls >>

\* line 532: wait_for raises TimeoutError when the result is not there in time
TimeoutExpires(r) ==
    /\ pc[r] = "waiting"
    /\ waited[r] = TimeoutTicks
    /\ HandleException(r, TimeoutError)
    /\ UNCHANGED << active, connection_string, history, units >>
    /\ UNCHANGED << customer_profiles, performance_metrics, docs_loaded, uuid_seq >>
    /\ UNCHANGED << customer_id, customer_profile, search_results, search_error,
                    agent_contributions, stage, responded, output, waited, result >>

\* lines 546-572: EnhancedBankingReport(...)
BuildReport(id, cid, profile, results, contributions, final_output, now) ==
    LET risk_score == _calculate_enhanced_risk_score(profile, now)
    IN  [report_id |-> id,
         customer_id |-> cid,
         summary |-> final_output,
         key_findings |-> _generate_enhanced_findings(profile, results, contributions),
         risk_assessment |-> _determine_risk_tier(risk_score),
         risk_score |-> risk_score,
         recommendations |-> _generate_enhanced_recommendations(profile, risk_score),
         policy_references |-> PolicyRefs(results),
         agent_contributions |-> contributions,
         agents_used |-> Len(agents)]

\* lines 532-582: the result arrives; the report is built, counted, logged
\* and returned through the finally clause
ResultReady(r) ==
    /\ pc[r] = "waiting"
    /\ waited[r] < TimeoutTicks
    /\ stage[r] = 0
    /\ responded[r] = Len(agents)
    /\ \E now \in NowDates :
         LET final_output == output[r]
             report == BuildReport(uuid_seq + 1, customer_id[r], customer_profile[r],
                                   search_results[r], agent_contributions[r],
                                   final_output, now)
         IN  /\ pending' = [pending EXCEPT ![r] = Returned(report)]
             /\ interactions' = update_interaction(interactions, customer_id[r], report)
    /\ uuid_seq' = uuid_seq + 1
    /\ performance_metrics' = CountSuccess(performance_metrics)
    /\ calls' = [calls EXCEPT ![r].update_interaction = @ + 1]
    /\ pc' = [pc EXCEPT ![r] = "stopping"]
    /\ UNCHANGED << active, connection_string, history, customer_profiles, docs_loaded,
                    units >>
    /\ UNCHANGED << customer_id, customer_profile, search_results, search_error,
                    agent_contributions, stage, responded, output, waited, result >>

\* line 589 and the end of the call: the runtime stops, the frame with its
\* locals is gone, and the caller has the report or the exception
StopWhenIdle(r) ==
    /\ pc[r] = "stopping"
    /\ calls' = [calls EXCEPT ![r].stop_when_idle = @ + 1]
    /\ result' = [result EXCEPT ![r] = pending[r]]
    /\ history' = [history EXCEPT
                      !.returned = IF pending[r].kind = "report" THEN @ + 1 ELSE @]
    /\ pending' = [pending EXCEPT ![r] = Nothing]
    /\ agent_contributions' = [agent_contributions EXCEPT ![r] = EmptyMap]
    /\ pc' = [pc EXCEPT ![r] = "done"]
    /\ UNCHANGED << active, connection_string, units >>
    /\ UNCHANGED shared
    /\ UNCHANGED << customer_id, customer_profile, search_results, search_error, stage,
                    responded, output, waited >>

Next ==
    \E r \in Slots :
        \/ Start(r)
        \/ FinishLoadProfiles(r)
        \/ LoadDocuments(r)
        \/ LoadDocumentsFails(r)
        \/ Search(r)
        \/ RuntimeStartFails(r)
        \/ Invoke(r)
        \/ StageStart(r)
        \/ StageComplete(r)
        \/ StageFails(r)
        \/ Tick(r)
        \/ TimeoutExpires(r)
        \/ ResultReady(r)
        \/ StopWhenIdle(r)

Spec == Init /\ [][Next]_vars

\* the event loop runs a call that can take a step: an awaited operation
\* completes or raises, and the timer of wait_for fires
Fairness == WF_vars(Next)

SpecFair == Spec /\ Fairness

\* two callers whose calls interleave at the await points
InitConc == InitSystem /\ active = Slots

SpecConc == InitConc /\ [][Next]_vars

(***************************************************************************)
(* Profile resolution on its own: lines 459-469 on a fresh system, over    *)
(* every outcome of the six queries                                        *)
(***************************************************************************)
ResolveIds == LoadIds \cup {"99999", "00000"}

Resolve ==
    /\ ~resolved.done
    /\ \E cid \in ResolveIds :
       \E fetched \in (IF connection_string THEN [LoadIds -> FetchOutcomes]
                                           ELSE {NoFetch}) :
         LET cache == _load_customer_profiles(connection_string, fetched)
         IN  resolved' = [done |-> TRUE, cid |-> cid, fetched |-> fetched,
                          profile |-> GetProfile(cache, cid)]
    /\ UNCHANGED << active, connection_string, history, pc, scoring, assembly >>
    /\ UNCHANGED shared
    /\ UNCHANGED locals

InitResolve == InitSystem /\ active = {}

NextResolve == Resolve

SpecResolve == InitResolve /\ [][NextResolve]_vars

(***************************************************************************)
(* Scoring and synthesis on their own: one profile, the clock, the calls   *)
(* of _calculate_enhanced_risk_score made on the profile and one report    *)
(* built from it                                                           *)
(***************************************************************************)
\* scoring calls made on the profile in one behaviour
MaxScoreCalls == 2

Incomes == {0, 28000, 49000, 50000, 75000, 100000}

CreditScores == {0, 620, 650, 700, 780}

\* customer_since: not set, not a date, and dates
SinceDates == {"", "not-a-date", "2019-05-15", "2023-01-10"}

ProductLists ==
    { <<>>,
      <<"checking">>,
      <<"checking", "savings">>,
      <<"checking", "savings", "credit_card">>,
      <<"checking", "savings", "mortgage", "investment", "credit_card">> }

TransactionLists ==
    { <<>>,
      default_profiles["11111"].recent_transactions,
      default_profiles["12345"].recent_transactions,
      << Tx(5001, "Car Purchase", "2024-04-01"), Tx(200, "Utility Bills", "2024-04-03") >>,
      << Tx(200, "Utility Bills", "2024-04-03"),
         Tx(12000, "Wire Transfer", "2024-04-02") >> }

AccountTypes == {"basic", "premium_plus"}

\* CustomerProfile objects
Profiles ==
    { [customer_id |-> "12345", income |-> i, credit_score |-> c,
       account_type |-> a, customer_since |-> s, risk_tier |-> "medium",
       recent_transactions |-> t, banking_products |-> b,
       last_review_date |-> "2024-01-10"] :
         i \in Incomes, c \in CreditScores, a \in AccountTypes,
         s \in SinceDates, t \in TransactionLists, b \in ProductLists }

\* the dates datetime.now() falls on, in the order they pass
Clocks == << <<2023, 6, 1>>, <<2024, 6, 1>>, <<2026, 11, 5>> >>

\* the contribution dict of a run whose six members have responded
FullContributions == [n \in {agents[i] : i \in 1..Len(agents)} |-> "analysis"]

InitScore ==
    /\ InitCalls
    /\ ~connection_string
    /\ active = {}
    /\ resolved = NotResolved
    /\ assembly = NotAssembled
    /\ \E p \in Profiles :
         scoring = [started |-> TRUE, profile |-> p, clock |-> 1,
                    scores |-> <<>>, report |-> <<>>]

\* time passes between calls
ClockAdvances ==
    /\ scoring.started
    /\ scoring.clock < Len(Clocks)
    /\ scoring' = [scoring EXCEPT !.clock = @ + 1]
    /\ UNCHANGED << active, connection_string, history, pc, resolved, assembly >>
    /\ UNCHANGED shared
    /\ UNCHANGED locals

\* a call of _calculate_enhanced_risk_score(profile, []): line 619 reads
\* datetime.now()
CalculateRiskScore ==
    /\ scoring.started
    /\ Len(scoring.scores) < MaxScoreCalls
    /\ scoring' =
         [scoring EXCEPT
            !.scores =
               Append(@, [at |-> scoring.clock,
                          score |-> _calculate_enhanced_risk_score(
                                        scoring.profile, Clocks[scoring.clock])])]
    /\ UNCHANGED << active, connection_string, history, pc, resolved, assembly >>
    /\ UNCHANGED shared
    /\ UNCHANGED locals

\* lines 535-572: the report of a run on the profile whose six members responded
Synthesize ==
    /\ scoring.started
    /\ scoring.report = <<>>
    /\ \E results \in SearchResultSets :
         scoring' =
            [scoring EXCEPT
               !.report = << BuildReport(1, scoring.profile.customer_id,
                                         scoring.profile, results, FullContributions,
                                         "analysis", Clocks[scoring.clock]) >>]
    /\ UNCHANGED << active, connection_string, history, pc, resolved, assembly >>
    /\ UNCHANGED shared
    /\ UNCHANGED locals

NextScore ==
    \/ ClockAdvances
    \/ CalculateRiskScore
    \/ Synthesize

SpecScore == InitScore /\ [][NextScore]_vars


(***************************************************************************)
(* _prepare_enhanced_context on its own.  The context string is held as    *)
(* its parts; a text is a sequence of character codes.                     *)
(***************************************************************************)
\* the longest transaction list and result list handed to the function
MaxTransactions == 12

MaxExcerpts == 8

\* recent_transactions[:10], search_results[:6], document[:500]
TransactionLimit == 10

ExcerptLimit == 6

ExcerptChars == 500

\* a slice that takes one element more
SliceOneMore(seq, n) == SubSeq(seq, 1, IF Len(seq) < n + 1 THEN Len(seq) ELSE n + 1)

\* seq[:n]
Slice(seq, n) == SubSeq(seq, 1, IF Len(seq) < n THEN Len(seq) ELSE n)

\* lengths of the documents of the excerpts
DocLengths == {0, 3, ExcerptChars - 1, ExcerptChars, ExcerptChars + 1, 600}

Doc(n) == [i \in 1..n |-> 97 + (i % 26)]

TransactionList(n) ==
    [i \in 1..n |-> Tx(100 * i, "Card Payment", "2024-03-20")]

\* n search results in ranked order, the documents len characters long
ResultList(n, len) ==
    [i \in 1..n |->
        [filename |-> "policy.md", collection |-> "compliance",
         final_score |-> 1000 - i, document |-> Doc(len + (i % 2))]]

\* _prepare_enhanced_context: the parts of the returned string
_prepare_enhanced_context(profile, results, customer_query) ==
    LET txs      == Slice(profile.recent_transactions, TransactionLimit)
        excerpts == Slice(results, ExcerptLimit)
    IN  [query |-> customer_query,
         customer |->
            [customer_id |-> profile.customer_id, income |-> profile.income,
             credit_score |-> profile.credit_score,
             account_type |-> profile.account_type,
             customer_since |-> profile.customer_since,
             risk_tier |-> profile.risk_tier,
             banking_products |-> profile.banking_products,
             last_review_date |-> profile.last_review_date],
         transactions |->
            [i \in 1..Len(txs) |->
                [amount |-> txs[i].amount, description |-> txs[i].description,
                 ts |-> txs[i].ts]],
         policies |->
            [i \in 1..Len(excerpts) |->
                [reference |-> i, filename |-> excerpts[i].filename,
                 collection |-> excerpts[i].collection,
                 relevance |-> excerpts[i].final_score,
                 text |-> Slice(excerpts[i].document, ExcerptChars)]]]

InitContext ==
    /\ InitCalls
    /\ ~connection_string
    /\ active = {}
    /\ resolved = NotResolved
    /\ scoring = NotScored
    /\ \E n \in 0..MaxTransactions, k \in 0..MaxExcerpts, len \in DocLengths :
         LET p  == [default_profiles["12345"] EXCEPT
                       !.recent_transactions = TransactionList(n)]
             rs == ResultList(k, len)
         IN  assembly = [done |-> FALSE, profile |-> p, results |-> rs,
                         given_profile |-> p, given_results |-> rs]

\* line 478: the call; the function reads its arguments and builds a string
PrepareContext ==
    /\ ~assembly.done
    /\ DOMAIN assembly # DOMAIN NotAssembled
    /\ assembly' =
         [done |-> TRUE, profile |-> assembly.profile, results |-> assembly.results,
          given_profile |-> assembly.given_profile,
          given_results |-> assembly.given_results,
          context |-> _prepare_enhanced_context(assembly.profile, assembly.results,
                                                "query")]
    /\ UNCHANGED << active, connection_string, history, pc, resolved, scoring >>
    /\ UNCHANGED shared
    /\ UNCHANGED locals

NextContext == PrepareContext

SpecContext == InitContext /\ [][NextContext]_vars

(***************************************************************************)
(* The risk-scoring test of run_component_tests (lines 891-917): the       *)
(* profiles are loaded, then the low-risk and the high-risk sample are     *)
(* scored                                                                  *)
(***************************************************************************)
\* the dates datetime.now() falls on while the test runs, in the order they
\* pass: they put each sample in each of its tenure bands
SampleClocks ==
    << <<2019, 12, 1>>, <<2021, 1, 1>>, <<2023, 6, 1>>, <<2024, 6, 1>>,
       <<2026, 11, 5>>, <<2028, 6, 1>> >>

InitSamples ==
    /\ InitCalls
    /\ active = {}
    /\ resolved = NotResolved
    /\ assembly = NotAssembled
    /\ \E fetched \in (IF connection_string THEN RunFetchScenarios ELSE {NoFetch}) :
         LET profiles == _load_customer_profiles(connection_string, fetched)
         IN  scoring = [started |-> TRUE, clock |-> 1,
                        low_risk |-> profiles["12345"],
                        high_risk |-> profiles["11111"],
                        low_score |-> <<>>, high_score |-> <<>>]

\* time passes during the test
SampleClockAdvances ==
    /\ scoring.started
    /\ scoring.clock < Len(SampleClocks)
    /\ scoring' = [scoring EXCEPT !.clock = @ + 1]
    /\ UNCHANGED << active, connection_string, history, pc, resolved, assembly >>
    /\ UNCHANGED shared
    /\ UNCHANGED locals

\* line 914: low_score = system._calculate_enhanced_risk_score(low_risk, [])
ScoreLowRisk ==
    /\ scoring.started
    /\ scoring.low_score = <<>>
    /\ scoring' =
         [scoring EXCEPT
            !.low_score =
               << [at |-> scoring.clock,
                   score |-> _calculate_enhanced_risk_score(
                                 scoring.low_risk, SampleClocks[scoring.clock])] >>]
    /\ UNCHANGED << active, connection_string, history, pc, resolved, assembly >>
    /\ UNCHANGED shared
    /\ UNCHANGED locals

\* line 915: high_score = system._calculate_enhanced_risk_score(high_risk, [])
ScoreHighRisk ==
    /\ scoring.started
    /\ scoring.low_score # <<>>
    /\ scoring.high_score = <<>>
    /\ scoring' =
         [scoring EXCEPT
            !.high_score =
               << [at |-> scoring.clock,
                   score |-> _calculate_enhanced_risk_score(
                                 scoring.high_risk, SampleClocks[scoring.clock])] >>]
    /\ UNCHANGED << active, connection_string, history, pc, resolved, assembly >>
    /\ UNCHANGED shared
    /\ UNCHANGED locals

NextSamples ==
    \/ SampleClockAdvances
    \/ ScoreLowRisk
    \/ ScoreHighRisk

SpecSamples == InitSamples /\ [][NextSamples]_vars

(***************************************************************************)
(* Properties                                                              *)
(***************************************************************************)
RiskTiers == {"low", "medium-low", "medium", "high", "critical"}

AgentNames == {agents[i] : i \in 1..Len(agents)}

CompleteReport(rep) ==
    /\ rep.report_id > 0
    /\ rep.summary \in GeneratedTexts
    /\ rep.key_findings # <<>>
    /\ rep.recommendations # <<>>
    /\ rep.risk_assessment \in RiskTiers
    /\ rep.risk_score \in 0..1000
    /\ DOMAIN rep.agent_contributions = AgentNames

\* C1: a call that has ended handed its caller either a complete report and
\* no error, or one error and no report; until it ends the caller has neither.
C1_ReportOrError ==
    \A r \in Slots :
        /\ pc[r] = "done" =>
             \/ /\ result[r].kind = "report"
                /\ CompleteReport(result[r].report)
                /\ result[r].error = NoError
             \/ /\ result[r].kind = "error"
                /\ result[r].report = NoReport
                /\ result[r].error.type # ""
        /\ pc[r] \notin {"done", "idle"} => result[r] = Nothing

\* a second call has ended with an error after a first one returned a report
C1_Witness ==
    /\ pc[1] = "done"
    /\ result[1].kind = "error"
    /\ Len(interactions) = 2
    /\ interactions[1].kind = "interaction"

FailedInStage(r) ==
    /\ pc[r] = "done"
    /\ result[r].error = GenerationError

C2_State ==
    \A r \in Slots :
        FailedInStage(r) =>
            /\ result[r].kind = "error"
            /\ result[r].report = NoReport
            /\ calls[r].record_failure = 1
            /\ calls[r].update_interaction = 0

C2_Step ==
    \A r \in Slots :
        /\ ( /\ pc[r] = "waiting"
             /\ pending'[r].kind = "error"
             /\ pending'[r].error = GenerationError )
           => /\ performance_metrics' = performance_metrics
              /\ interactions' =
                   Append(interactions,
                          [customer_id |-> customer_id[r], kind |-> "failure",
                           report_id |-> 0, risk_score |-> 0,
                           reason |-> GenerationError.msg])
        /\ ( /\ pc[r] = "stopping"
             /\ pending[r].kind = "error"
             /\ pc'[r] = "done" )
           => /\ performance_metrics' = performance_metrics
              /\ interactions' = interactions

\* C2: a call in which the generation capability raised while a stage ran ends
\* with an error and no report, having called record_failure once and
\* update_interaction never; the failing step appends exactly the failure
\* record of the call's customer and leaves successful_analyses alone, and so
\* does the rest of the call.
C2_StageFailure == [](C2_State) /\ [][C2_Step]_vars

\* the fourth stage of a call failed
C2_Witness ==
    /\ FailedInStage(1)
    /\ stage[1] = 4
    /\ interactions[Len(interactions)].customer_id = customer_id[1]

\* C3: a returned report carries exactly one contribution per configured
\* stage, keyed by the stage names (six for the built-in agents), as many as
\* completion callbacks fired, and its findings and recommendations are not empty.
C3_AllContributions ==
    \A r \in Slots :
        result[r].kind = "report" =>
            /\ DOMAIN result[r].report.agent_contributions = AgentNames
            /\ Cardinality(DOMAIN result[r].report.agent_contributions) = Len(agents)
            /\ Len(agents) = 6
            /\ responded[r] = Len(agents)
            /\ Len(result[r].report.key_findings) >= 1
            /\ Len(result[r].report.recommendations) >= 1

\* a report for the unknown customer over no policy excerpts
C3_Witness ==
    /\ result[1].kind = "report"
    /\ customer_id[1] = "99999"
    /\ search_results[1] = <<>>

\* C4: while stage i runs, the contributions present are those of the stages
\* 1..i-1 of the configured order and of no other, the stage that runs is the
\* i-th of that order, and the synthesis stage runs with all five others done.
C4_SequentialOrder ==
    \A r \in Slots :
        (pc[r] = "waiting" /\ stage[r] > 0) =>
            /\ stage[r] = responded[r] + 1
            /\ agents[stage[r]] = expected_names[stage[r]]
            /\ DOMAIN agent_contributions[r] =
                 {expected_names[j] : j \in 1..(stage[r] - 1)}
            /\ ( agents[stage[r]] = "Enhanced_Synthesis_Coordinator"
                   => Cardinality(DOMAIN agent_contributions[r]) = 5 )

\* the synthesis stage is running
C4_Witness ==
    /\ pc[1] = "waiting"
    /\ stage[1] > 0
    /\ agents[stage[1]] = "Enhanced_Synthesis_Coordinator"

\* C5: the wait never exceeds the budget; a call whose stages had not all
\* responded when the budget ran out ends with TimeoutError and no report, and
\* no call that ended otherwise carries an error of that type.
C5_Timeout ==
    \A r \in Slots :
        /\ waited[r] <= TimeoutTicks
        /\ TimeoutTicks * TickSeconds <= TimeoutSeconds
        /\ (pc[r] \in {"stopping", "done"} /\ waited[r] = TimeoutTicks) =>
              /\ pending[r].kind # "report"
              /\ result[r].kind # "report"
              /\ pc[r] = "stopping" => pending[r] = Raised(TimeoutError)
              /\ pc[r] = "done" => result[r] = Raised(TimeoutError)
        /\ (pc[r] = "done" /\ waited[r] < TimeoutTicks) =>
              result[r].error.type # TimeoutError.type

\* a call timed out while its third stage ran
C5_Witness ==
    /\ pc[1] = "done"
    /\ result[1] = Raised(TimeoutError)
    /\ stage[1] = 3

\* what the caller of a call holds of the stage contributions
CallerContributions(r) == result[r].report.agent_contributions

Aborted(r) ==
    /\ pc[r] = "done"
    /\ calls[r].record_failure = 1

C8_Original ==
    \A r \in Slots :
        pc[r] = "done" =>
            calls[r].update_interaction + calls[r].record_failure = 1

\* C9 as stated, for the profile cache: with calls for different customers,
\* a value written to the cache is not replaced by the write of another call.
C9_Original ==
    [][ ( /\ \A r1, r2 \in Slots : r1 # r2 => customer_id[r1] # customer_id[r2]
          /\ customer_profiles # EmptyMap )
        => customer_profiles' = customer_profiles ]_vars

Recognized(cid) == cid \in LoadIds

IncomeFetched(cid) ==
    /\ connection_string
    /\ ~resolved.fetched[cid].income.error
    /\ resolved.fetched[cid].income.rows # <<>>

\* C10 as amended: an unrecognized id resolves to the zero-valued profile
\* carrying that id; a recognized id resolves to its unchanged default
\* profile when no source is configured or fetch_income fails or finds no
\* row; when fetch_income succeeds, the profile is the default with the
\* fetched income, and with the default's transactions when
\* fetch_transactions fails or finds none.
C10_Resolution ==
    resolved.done =>
        LET cid == resolved.cid
            q   == resolved.fetched[cid]
        IN  /\ ~Recognized(cid) => resolved.profile = ZeroProfile(cid)
            /\ (Recognized(cid) /\ ~IncomeFetched(cid)) =>
                  resolved.profile = default_profiles[cid]
            /\ (Recognized(cid) /\ IncomeFetched(cid)) =>
                  /\ resolved.profile.income = q.income.rows[1]
                  /\ (q.tx.error \/ q.tx.rows = <<>>) =>
                        resolved.profile =
                           [default_profiles[cid] EXCEPT !.income = q.income.rows[1]]
                  /\ ~(q.tx.error \/ q.tx.rows = <<>>) =>
                        resolved.profile =
                           [default_profiles[cid] EXCEPT
                               !.income = q.income.rows[1],
                               !.recent_transactions = q.tx.rows]

\* a recognized id resolved while its income query failed
C10_Witness ==
    /\ resolved.done
    /\ connection_string
    /\ resolved.cid = "12345"
    /\ resolved.fetched["12345"].income.error
    /\ resolved.profile = default_profiles["12345"]

\* C10 as stated: when either fetch for a recognized id fails, the id
\* resolves to its unchanged default profile.
C10_Original ==
    (resolved.done /\ Recognized(resolved.cid)) =>
        ( ( \/ ~connection_string
            \/ resolved.fetched[resolved.cid].income.error
            \/ resolved.fetched[resolved.cid].tx.error )
          => resolved.profile = default_profiles[resolved.cid] )

\* C11: a call during whose search the search service failed goes on with an
\* empty list of policy excerpts: the failure is not recorded and not raised,
\* an error the call ends with is one of the runtime, a stage or the wait, and
\* a report it returns refers to no policy.
C11_SearchFailure ==
    \A r \in Slots :
        search_error[r] =>
            /\ search_results[r] = <<>>
            /\ pc[r] \in {"invoke", "waiting", "stopping", "done"}
            /\ calls[r].record_failure > 0 => pc[r] \in {"stopping", "done"}
            /\ result[r].kind = "error" =>
                  result[r].error \in {RuntimeStartError, GenerationError, TimeoutError}
            /\ result[r].kind = "report" =>
                  /\ CompleteReport(result[r].report)
                  /\ result[r].report.policy_references = {}

\* a call returned a report although its search failed
C11_Witness ==
    /\ search_error[1]
    /\ pc[1] = "done"
    /\ result[1].kind = "report"
    /\ calls[1].record_failure = 0

Scored == scoring.started /\ scoring.scores # <<>>

LatestScore == scoring.scores[Len(scoring.scores)]

Synthesized == scoring.started /\ scoring.report # <<>>

\* C12: every score a call of _calculate_enhanced_risk_score returned lies in
\* [0.0, 1.0], whatever the profile's income, credit score, tenure date
\* (none, malformed or a date), products and transactions, and so does the
\* risk_score of a report built from the profile.
C12_ScoreInUnitInterval ==
    scoring.started =>
        /\ \A i \in DOMAIN scoring.scores : scoring.scores[i].score \in 0..1000
        /\ \A i \in DOMAIN scoring.report :
               scoring.report[i].risk_score \in 0..1000

\* the highest score was returned and a report carries it
C12_Witness ==
    /\ Scored
    /\ Synthesized
    /\ LatestScore.score = 980
    /\ scoring.report[1].risk_score = 980

\* C13 as stated: the calls of the scoring function made with one profile
\* and the same excerpts return one score, whenever they are made.
C13_Original ==
    scoring.started =>
        \A i, j \in DOMAIN scoring.scores :
            scoring.scores[i].score = scoring.scores[j].score

\* the adjustments of the specification's tables, in thousandths
TableIncome(income) ==
    CASE income >= 100000 -> -150
      [] income >= 75000 /\ income < 100000 -> -100
      [] income >= 50000 /\ income < 75000 -> -50
      [] income < 30000 -> 100
      [] OTHER -> 0

TableCredit(credit_score) ==
    CASE credit_score >= 750 -> -150
      [] credit_score >= 700 /\ credit_score < 750 -> -80
      [] credit_score >= 650 /\ credit_score < 700 -> 50
      [] credit_score \in 1..649 -> 150
      [] OTHER -> 0

TableTenure(customer_since, now) ==
    LET since == ParseDate(customer_since)
        days  == DaysBetween(now, since.ymd)
    IN  CASE customer_since = "" \/ ~since.ok -> 0
          [] OTHER ->
               CASE days * 100 >= 5 * 36525 -> -100
                 [] days * 100 >= 3 * 36525 /\ days * 100 < 5 * 36525 -> -50
                 [] days * 100 < 36525 -> 80
                 [] OTHER -> 0

TableProducts(n) ==
    CASE n >= 4 -> -80
      [] n \in 2..3 -> -30
      [] OTHER -> 50

TableTransactions(txs) ==
    IF \E i \in DOMAIN txs : txs[i].amount > 10000 THEN 100
    ELSE IF \E i \in DOMAIN txs : txs[i].amount > 5000 THEN 30
    ELSE 0

TableScore(p, now) ==
    LET sum == 500 + TableIncome(p.income) + TableCredit(p.credit_score)
                   + TableTenure(p.customer_since, now)
                   + TableProducts(Len(p.banking_products))
                   + TableTransactions(p.recent_transactions)
    IN  IF sum < 0 THEN 0 ELSE IF sum > 1000 THEN 1000 ELSE sum

\* income 75000, credit 780, no tenure, 5 products, largest transaction 4500
ScenarioA(p) ==
    /\ p.income = 75000
    /\ p.credit_score = 780
    /\ p.customer_since = ""
    /\ Len(p.banking_products) = 5
    /\ p.recent_transactions = default_profiles["12345"].recent_transactions

\* C14: every score returned equals 0.5 plus the five adjustments of the
\* specification's tables for income, credit score, tenure, product count
\* and largest transaction, clamped to [0, 1]; a missing or malformed tenure
\* date adds nothing; the profile of scenario A scores 0.17.
C14_AdditiveTable ==
    scoring.started =>
        \A i \in DOMAIN scoring.scores :
            /\ scoring.scores[i].score =
                  TableScore(scoring.profile, Clocks[scoring.scores[i].at])
            /\ ScenarioA(scoring.profile) => scoring.scores[i].score = 170

\* the profile of scenario A was scored
C14_Witness ==
    /\ Scored
    /\ ScenarioA(scoring.profile)
    /\ LatestScore.score = 170

IncomeSamples == Incomes \cup {1, 29999, 30000, 49999, 74999, 99999, 250000}

\* C15: with everything else and the time of the call the same, a higher
\* income never scores higher and a lower income never scores lower than
\* the score returned, across every boundary of the income bands.
C15_IncomeMonotone ==
    Scored =>
        LET p   == scoring.profile
            now == Clocks[LatestScore.at]
        IN  \A b \in IncomeSamples :
              LET other == _calculate_enhanced_risk_score([p EXCEPT !.income = b], now)
              IN  /\ b > p.income => other <= LatestScore.score
                  /\ b < p.income => other >= LatestScore.score

\* an income of 49000 was scored, and 50000 scores strictly lower
C15_Witness ==
    /\ Scored
    /\ scoring.profile.income = 49000
    /\ _calculate_enhanced_risk_score([scoring.profile EXCEPT !.income = 50000],
                                      Clocks[LatestScore.at]) < LatestScore.score

\* credit scores of the range [300, 850], with the boundaries of the bands
KnownCreditScores == {300, 301, 620, 649, 650, 699, 700, 749, 750, 780, 850}

\* C16 as amended: among known credit scores (300 to 850) a higher credit
\* score never scores higher, everything else being the same; an unknown
\* credit score (0) gets no adjustment, so it scores lower than any known
\* credit score below 700 and higher than any from 700 up.
C16_CreditMonotoneKnown ==
    Scored =>
        LET p   == scoring.profile
            now == Clocks[LatestScore.at]
        IN  \A b \in KnownCreditScores :
              LET other ==
                    _calculate_enhanced_risk_score([p EXCEPT !.credit_score = b], now)
              IN  /\ (p.credit_score > 0 /\ b > p.credit_score)
                        => other <= LatestScore.score
                  /\ (p.credit_score > 0 /\ b < p.credit_score)
                        => other >= LatestScore.score
                  /\ (p.credit_score = 0 /\ b < 700) => other > LatestScore.score
                  /\ (p.credit_score = 0 /\ b >= 700) => other < LatestScore.score

\* a credit score of 620 was scored, and 780 scores strictly lower
C16_Witness ==
    /\ Scored
    /\ scoring.profile.credit_score = 620
    /\ _calculate_enhanced_risk_score([scoring.profile EXCEPT !.credit_score = 780],
                                      Clocks[LatestScore.at]) < LatestScore.score

\* C16 as stated: over 0 and the range 300 to 850 a higher credit score
\* never scores higher.
C16_Original ==
    Scored =>
        \A b \in KnownCreditScores \cup {0} :
            b > scoring.profile.credit_score =>
                _calculate_enhanced_risk_score(
                    [scoring.profile EXCEPT !.credit_score = b],
                    Clocks[LatestScore.at]) <= LatestScore.score

\* scores at and next to the tier boundaries
ScoreSamples == {0, 249, 250, 499, 500, 649, 650, 799, 800, 1000}

TableTier(score) ==
    CASE score < 250 -> "low"
      [] score >= 250 /\ score < 500 -> "medium-low"
      [] score >= 500 /\ score < 650 -> "medium"
      [] score >= 650 /\ score < 800 -> "high"
      [] score >= 800 -> "critical"

TierRank(tier) ==
    CASE tier = "low" -> 1
      [] tier = "medium-low" -> 2
      [] tier = "medium" -> 3
      [] tier = "high" -> 4
      [] tier = "critical" -> 5

\* income 28000, credit 620, no tenure, 1 product, largest transaction 2300
ScenarioB(p) ==
    /\ p.income = 28000
    /\ p.credit_score = 620
    /\ p.customer_since = ""
    /\ Len(p.banking_products) = 1
    /\ p.recent_transactions = default_profiles["11111"].recent_transactions

\* C17: the tier of a report is the one label of the five whose half-open
\* interval, lower bound included, holds the report's score; the tier never
\* falls as the score rises; the profile of scenario B scores 0.80 and is
\* tiered "critical".
C17_TierTable ==
    Synthesized =>
        LET rep == scoring.report[1]
        IN  /\ rep.risk_assessment \in RiskTiers
            /\ rep.risk_assessment = TableTier(rep.risk_score)
            /\ \A s \in ScoreSamples :
                 /\ _determine_risk_tier(s) = TableTier(s)
                 /\ s <= rep.risk_score =>
                      TierRank(_determine_risk_tier(s)) <= TierRank(rep.risk_assessment)
                 /\ s >= rep.risk_score =>
                      TierRank(_determine_risk_tier(s)) >= TierRank(rep.risk_assessment)
            /\ ScenarioB(scoring.profile) =>
                 /\ rep.risk_score = 800
                 /\ rep.risk_assessment = "critical"

\* a report was built for the profile of scenario B
C17_Witness ==
    /\ Synthesized
    /\ ScenarioB(scoring.profile)
    /\ scoring.report[1].risk_assessment = "critical"

Fallback == "periodic_financial_health_review"

\* C18: the recommendations of a report, and those for the profile at any
\* risk score, are at least two; the fallback recommendation is the last
\* entry when the other rules gave fewer than two, and is absent otherwise.
C18_AtLeastTwoRecommendations ==
    Synthesized =>
        /\ Len(scoring.report[1].recommendations) >= 2
        /\ \A s \in ScoreSamples :
             LET rules == RuleRecommendations(scoring.profile, s)
                 recs  == _generate_enhanced_recommendations(scoring.profile, s)
             IN  /\ Len(recs) >= 2
                 /\ Len(rules) < 2 => recs = Append(rules, Fallback)
                 /\ Len(rules) >= 2 => (recs = rules /\ ~Has(recs, Fallback))

\* a report whose second recommendation is the fallback
C18_Witness ==
    /\ Synthesized
    /\ Len(scoring.report[1].recommendations) = 2
    /\ scoring.report[1].recommendations[2] = Fallback

IsPrefix(a, b) ==
    /\ Len(a) <= Len(b)
    /\ \A i \in 1..Len(a) : a[i] = b[i]

\* C20: the assembled context holds the first 10 transactions of the profile
\* (all of them when there are fewer) and the first 6 search results (all of
\* them when there are fewer), in the order given, each result with the
\* first 500 characters of its document (the whole document when it is
\* shorter); the profile and the search results are as they were given.
C20_ContextTruncation ==
    assembly.done =>
        LET ctx == assembly.context
            txs == assembly.given_profile.recent_transactions
            rs  == assembly.given_results
        IN  /\ Len(ctx.transactions) <= 10
            /\ Len(ctx.transactions) = (IF Len(txs) < 10 THEN Len(txs) ELSE 10)
            /\ \A i \in 1..Len(ctx.transactions) :
                 /\ ctx.transactions[i].amount = txs[i].amount
                 /\ ctx.transactions[i].description = txs[i].description
                 /\ ctx.transactions[i].ts = txs[i].ts
            /\ Len(ctx.policies) <= 6
            /\ Len(ctx.policies) = (IF Len(rs) < 6 THEN Len(rs) ELSE 6)
            /\ \A i \in 1..Len(ctx.policies) :
                 /\ ctx.policies[i].filename = rs[i].filename
                 /\ ctx.policies[i].collection = rs[i].collection
                 /\ ctx.policies[i].relevance = rs[i].final_score
                 /\ Len(ctx.policies[i].text) <= 500
                 /\ IsPrefix(ctx.policies[i].text, rs[i].document)
                 /\ Len(rs[i].document) <= 500 => ctx.policies[i].text = rs[i].document
                 /\ Len(rs[i].document) > 500 => Len(ctx.policies[i].text) = 500
            /\ assembly.profile = assembly.given_profile
            /\ assembly.results = assembly.given_results

\* a context assembled from more than 10 transactions and more than 6
\* results whose documents are longer than 500 characters
C20_Witness ==
    /\ assembly.done
    /\ Len(assembly.given_profile.recent_transactions) > 10
    /\ Len(assembly.given_results) > 6
    /\ Len(assembly.given_results[1].document) > 500
    /\ Len(assembly.context.transactions) = 10
    /\ Len(assembly.context.policies) = 6
    /\ Len(assembly.context.policies[1].text) = 500

\* the two samples as _load_customer_profiles gives them without fetched data
SamplesAsGiven ==
    /\ scoring.low_risk = default_profiles["12345"]
    /\ scoring.high_risk = default_profiles["11111"]

BothScored == scoring.started /\ scoring.low_score # <<>> /\ scoring.high_score # <<>>

\* C21: the sample low-risk profile (12345) scores strictly lower than the
\* sample high-risk profile (11111) whenever both have been scored, at the
\* same date or with the date changing between the two calls, in whatever
\* tenure band each falls.
C21_LowBelowHigh ==
    (BothScored /\ SamplesAsGiven) =>
        /\ scoring.low_score[1].score < scoring.high_score[1].score
        /\ scoring.low_score[1].score \in 70..250
        /\ scoring.high_score[1].score \in 700..880

\* both were scored on a date before the high-risk customer's first year
\* was over (+0.08) and after the low-risk customer's third (-0.05)
C21_Witness ==
    /\ BothScored
    /\ SamplesAsGiven
    /\ scoring.low_score[1].at = scoring.high_score[1].at
    /\ scoring.low_score[1].score = 120
    /\ scoring.high_score[1].score = 880

\* calls whose `return report` has run and whose finally clause has not ended
ReturningCalls ==
    Cardinality({r \in Slots : pc[r] = "stopping" /\ pending[r].kind = "report"})

EndsByRaising(r) ==
    /\ pc[r] # "done"
    /\ pc'[r] = "done"
    /\ result'[r].kind = "error"

C22_State ==
    /\ performance_metrics.total_requests = history.started
    /\ performance_metrics.successful_analyses = history.returned + ReturningCalls
    /\ performance_metrics.successful_analyses <= performance_metrics.total_requests
    /\ \A r \in Slots :
         (pc[r] = "done" /\ result[r].kind = "error") =>
             performance_metrics.successful_analyses < performance_metrics.total_requests

C22_Step ==
    /\ performance_metrics'.total_requests >= performance_metrics.total_requests
    /\ performance_metrics'.successful_analyses
          >= performance_metrics.successful_analyses
    /\ \A r \in Slots :
         EndsByRaising(r) =>
              performance_metrics'.successful_analyses
                 = performance_metrics.successful_analyses
    /\ performance_metrics'.successful_analyses
          # performance_metrics.successful_analyses =>
         /\ performance_metrics'.successful_analyses
               = performance_metrics.successful_analyses + 1
         /\ \E r \in Slots :
              /\ pending[r].kind # "report"
              /\ pending'[r].kind = "report"

\* C22: total_requests is the number of calls started; successful_analyses
\* is the number of calls that returned a report (counting a call from its
\* `return report` on); successful_analyses never exceeds total_requests;
\* no counter ever decreases; the step in which a call ends by raising
\* leaves successful_analyses as it was, and the one step that changes it
\* adds one as a call's report is returned.
C22_Metrics == [](C22_State) /\ [][C22_Step]_vars

\* after one call that returned a report and a later one that raised
C22_Witness ==
    /\ history.started = 2
    /\ history.returned = 1
    /\ performance_metrics = [total_requests |-> 2, successful_analyses |-> 1]
    /\ pc[1] = "done"
    /\ result[1].kind = "error"

\* C23: the sum the scoring function clamps lies in [0.02, 0.98] already, so
\* the clamp returns it unchanged and no score is 0.0 or 1.0; the report's
\* tier is one of the five, and each of the five tiers is the tier of some
\* profile.
C23_ClampIdle ==
    /\ Scored =>
         LET sum == RoundedSum(scoring.profile, Clocks[LatestScore.at])
         IN  /\ sum \in 20..980
             /\ Clamp(sum) = sum
             /\ LatestScore.score = sum
             /\ LatestScore.score \notin {0, 1000}
    /\ Synthesized => scoring.report[1].risk_assessment \in RiskTiers
    /\ (Scored /\ LatestScore.score \in {20, 980}) =>
         \A tier \in RiskTiers :
            \E p \in Profiles :
               _determine_risk_tier(
                   _calculate_enhanced_risk_score(p, Clocks[LatestScore.at])) = tier

\* the lowest score was returned: all five factors at their most favourable
C23_Witness ==
    /\ Scored
    /\ LatestScore.score = 20
    /\ scoring.profile.income = 100000
    /\ scoring.profile.credit_score = 780
    /\ Len(scoring.profile.banking_products) = 5

\* the call is past the creation of its runtime (line 502) and has not ended
RuntimeCreated(r) == pc[r] \in {"invoke", "waiting", "stopping"}

\* the call has ended with its runtime stopped once
RuntimeStopped(r) == pc[r] = "done" /\ calls[r].stop_when_idle = 1

C24_State ==
    \A r \in Slots :
       /\ calls[r].stop_when_idle <= 1
       /\ RuntimeCreated(r) => calls[r].stop_when_idle = 0
       /\ (pc[r] = "done" /\ result[r].kind = "report") => RuntimeStopped(r)
       /\ (pc[r] = "done" /\ calls[r].record_failure > 0) => RuntimeStopped(r)
       /\ (pc[r] = "stopping" /\ pending[r].kind = "error") =>
            /\ calls[r].record_failure = 1
            /\ interactions # <<>>
            /\ interactions[Len(interactions)].kind = "failure"
            /\ interactions[Len(interactions)].customer_id = customer_id[r]

C24_Step ==
    \A r \in Slots :
       \* a call with a runtime ends only by the step that stops the runtime
       /\ (RuntimeCreated(r) /\ pc'[r] = "done") =>
            /\ pc[r] = "stopping"
            /\ calls'[r].stop_when_idle = calls[r].stop_when_idle + 1
       \* the runtime is created and fails to start: handled, not ended
       /\ (pc[r] = "search" /\ pc'[r] # "search") => RuntimeCreated(r)'
       \* the runtime is stopped by the last step of the call and by no other
       /\ calls'[r].stop_when_idle # calls[r].stop_when_idle =>
            \/ pc[r] = "stopping" /\ pc'[r] = "done"
            \/ calls'[r] = NoCalls
       \* nothing is recorded by the stop
       /\ (pc[r] = "stopping" /\ pc'[r] = "done") =>
            /\ interactions' = interactions
            /\ calls'[r].record_failure = calls[r].record_failure
            /\ result'[r] = pending[r]

\* C24: a call that has created its runtime goes on to invoke
\* runtime.stop_when_idle() exactly once, on the success path, after a stage
\* failure, after a timeout and after a failed runtime start, and only then
\* returns or raises; a failure record is written before the stop.
C24_RuntimeStopped ==
    /\ [](C24_State)
    /\ [][C24_Step]_vars
    /\ \A r \in Slots : RuntimeCreated(r) ~> RuntimeStopped(r)

\* a call that returned a report is followed by one whose runtime failed to
\* start: its failure is recorded and its runtime stopped
C24_Witness ==
    /\ pc[1] = "done"
    /\ result[1] = Raised(RuntimeStartError)
    /\ calls[1].record_failure = 1
    /\ calls[1].stop_when_idle = 1
    /\ Len(interactions) = 2
    /\ interactions[1].kind = "interaction"
    /\ interactions[2].kind = "failure"

=============================================================================
